---- MODULE Spec2Model ----
(***************************************************************************)
(* A model of DOSMatGen's property-guided reverse sampler                  *)
(* (dosmatgen/diffusion/property.py: CSPProperty.sample, masked_sample,    *)
(* RequiresGradContext, lap, training_step) and of the backbone's          *)
(* construction and edge builder (dosmatgen/models/cspnet_cfg.py:          *)
(* CSPNet.__init__, gen_edges, reorder_symmetric_edges).                   *)
(*                                                                         *)
(* Numbers.  Tensors of floats are modelled as tuples of integers.         *)
(* Fractional coordinates are fixed-point: the integer x stands for        *)
(* x / Unit, so the torus [0,1) is 0 .. Unit-1 and "x % 1." is x % Unit    *)
(* (Python's % and TLA+'s % both return a value of the divisor's sign).    *)
(* One coordinate component is kept per atom and one lattice entry per     *)
(* structure; an atom's type vector keeps all MAX_ATOMIC_NUM entries.      *)
(* The scheduler tables live in dosmatgen/utils/diffusion.py; the          *)
(* coefficients the sampler derives from them are integer stand-ins.       *)
(* Non-finite floats (NaN, inf) are outside the model of the sampler; the  *)
(* loss of training_step is a tagged value that can be NaN or infinite.    *)
(***************************************************************************)
EXTENDS Integers, Sequences, FiniteSets, TLC

\* ------------------------------------------------------------- bounds
\* Largest number of diffusion timesteps T (beta_scheduler.timesteps).
MaxT == 2
\* Number of species (dosmatgen.utils.constants.MAX_ATOMIC_NUM, scaled down).
MAX_ATOMIC_NUM == 2
\* Fixed-point denominator of a fractional coordinate.
Unit == 10
\* Largest batch handed to the backbone: structures, and atoms per structure.
MaxStructs == 2
MaxAtomsPerStruct == 3
\* Largest number of candidate edges the periodic neighbour search returns.
MaxEdges == 2

VARIABLES
    hparams,      \* self.hparams.diffusion / self.decoder flags the sampler reads
    pc,           \* "idle" | "loop" | "scope" | "returned" | "raised"
    err,          \* the exception that ended the call, or "none"
    call,         \* the arguments of the running call
    time_start,   \* local time_start
    t,            \* loop variable t
    traj,         \* local dict traj: timestep -> snapshot
    half,         \* x_t_minus_05, the corrector output, while in the grad scope
    reqgrad,      \* requires_grad of (t_t_minus_05, x_t_minus_05, l_t_minus_05)
    backups,      \* RequiresGradContext.backups
    last,         \* the inputs of the last completed predictor update
    steps,        \* history: the timesteps whose reverse step completed, in order
    evals,        \* history: number of decoder evaluations (uncod and main)
    noise_drawn,  \* history: whether any random tensor was drawn
    soft,         \* history: the trajectory as it was when the loop ended
    result,       \* what the call returned: [final, traj_stack]
    net,          \* the CSPNet being constructed: its arguments and how __init__ ended
    out,          \* what CSPNet.forward made of a batch: edges and edge2graph
    fn            \* a call of lap or training_step: its arguments and its result

svars == <<hparams, pc, err, call, time_start, t, traj, half, reqgrad, backups,
           last, steps, evals, noise_drawn, soft, result>>
nvars == <<net, out, fn>>
vars == <<svars, nvars>>

\* ------------------------------------------------------------ helpers
None == "None"

RECURSIVE Sum(_)
Sum(s) == IF s = <<>> THEN 0 ELSE Head(s) + Sum(Tail(s))

Const(n, v) == [i \in 1..n |-> v]

\* A type row with v at class k (1-based) and 0 elsewhere; k = 0 is the zero row.
Row(k, v) == [j \in 1..MAX_ATOMIC_NUM |-> IF j = k THEN v ELSE 0]

\* F.one_hot(atom_types - 1, num_classes=MAX_ATOMIC_NUM)
OneHot(types) == [i \in 1..Len(types) |-> Row(types[i], 1)]

\* batch.num_nodes and batch.num_graphs
NumNodes(batch) == Sum(batch.num_atoms)
NumGraphs(batch) == Len(batch.num_atoms)

\* ------------------------------------------------- sampler coefficients
\* Corrector: step_size = step_lr * (sigma_x / sigma_begin) ** 2, std_x = sqrt(2 step_size)
CorrStepSize(tt) == 3 + tt
CorrStdX(tt) == 1
\* Predictor: step_size = sigma_x ** 2 - adjacent_sigma_x ** 2, std_x
PredStepSize(tt) == 2 * tt - 1
PredStdX(tt) == 1
\* c0 = 1 / sqrt(alphas), c1 = (1 - alphas) / sqrt(1 - alphas_cumprod), sigmas
C0(tt) == 2
C1(tt) == 1
Sigmas(tt) == 1
\* Forward corruption at time_start: sqrt(alphas_cumprod), sqrt(1 - alphas_cumprod), sigmas
FwdC0(ts) == 1
FwdC1(ts) == ts
FwdSigmaX(ts) == ts

\* ------------------------------------------------------------- inputs
\* The module configurations: the default and its one-field variations.
BaseHparams ==
    [time_independent |-> FALSE, latent_dim |-> 0,
     pred_graph_level |-> TRUE, pred_node_level |-> FALSE]

HparamsSet ==
    { [h EXCEPT !.timesteps = T] :
        h \in { [BaseHparams EXCEPT !.time_independent = TRUE] @@ [timesteps |-> 1],
                [BaseHparams EXCEPT !.latent_dim = 1] @@ [timesteps |-> 1],
                [BaseHparams EXCEPT !.pred_graph_level = FALSE] @@ [timesteps |-> 1],
                BaseHparams @@ [timesteps |-> 1] },
        T \in 1..MaxT }

\* Ground-truth batches: num_atoms, species ids, fractional coordinates, lattices.
Batches ==
    { [num_atoms |-> <<1, 1>>, atom_types |-> <<1, MAX_ATOMIC_NUM>>,
       frac_coords |-> <<2, 7>>, lattices |-> <<3, 4>>],
      [num_atoms |-> <<2>>, atom_types |-> <<MAX_ATOMIC_NUM, MAX_ATOMIC_NUM>>,
       frac_coords |-> <<0, Unit - 1>>, lattices |-> <<5>>] }

\* diff_ratio as a fraction <<numerator, denominator>>
DiffRatios == { <<0, 1>>, <<1, 2>>, <<1, 1>>, <<3, 2>> }
Augs == {0, 2}

\* Masks of masked_sample for n atoms: every 0/1 column of length n, and one that
\* is too long.  A mask is a column (shape [n, 1]): that is the shape that
\* multiplies a [n, 3] and a [n, MAX_ATOMIC_NUM] gradient atom by atom.  sample
\* takes no mask.
Masks(n) == [1..n -> {0, 1}] \cup { Const(n + 1, 1) }

\* int(self.beta_scheduler.timesteps * diff_ratio)
IntTimes(T, ratio) == (T * ratio[1]) \div ratio[2]

\* ------------------------------------------------- tensor operations
\* x % 1. on every coordinate
Wrap(x) == [i \in DOMAIN x |-> x[i] % Unit]

\* Mutation of MaskGate: the gate is dropped and every atom is guided.
MaskGate_Ungated(g, mask) == g

\* grad * mask with mask a column of one entry per atom (lines 483-484)
MaskGate(g, mask) == g * mask

\* Mutation of NoiseAt: noise is injected at every timestep, t = 1 included.
NoiseAt_Always(tt, draw) == draw

\* torch.randn_like(..) if t > 1 else torch.zeros_like(..)
NoiseAt(tt, draw) == IF tt > 1 THEN draw ELSE 0

\* .argmax(dim=-1): the 0-based index of the first largest entry of a type row
ArgMax(row) ==
    (CHOOSE j \in DOMAIN row :
        /\ \A k \in DOMAIN row : row[k] <= row[j]
        /\ \A k \in DOMAIN row : k < j => row[k] < row[j]) - 1

\* Mutation of HardTypes: the 0-based arg-max index is returned as the species id.
HardTypes_ZeroBased(types) == [i \in DOMAIN types |-> ArgMax(types[i])]

\* atom_types.argmax(dim=-1) + 1 over the atoms of one snapshot
HardTypes(types) == [i \in DOMAIN types |-> ArgMax(types[i]) + 1]

Snapshot(num_atoms, types, x, l) ==
    [num_atoms |-> num_atoms, atom_types |-> types, frac_coords |-> x, lattices |-> l]

\* ------------------------------------------- RequiresGradContext (59-77)
AllGrad(b) == [t |-> b, x |-> b, l |-> b]

\* __init__: self.backups = [judge_requires_grad(obj) for obj in objs]
CtxBackups(flags) == flags
\* __enter__: obj.requires_grad_(requires_grad) for every object
CtxEnter(flags, requires_grad) == [o \in DOMAIN flags |-> requires_grad]
\* Mutation of CtxExit: __exit__ leaves the flags as the scope set them.
CtxExit_NoRestore(flags, saved) == flags

\* __exit__: obj.requires_grad_(backup) for every object
CtxExit(flags, saved) == [o \in DOMAIN flags |-> saved[o]]

\* ------------------------------------------------ sample, lines 199-234
\* Mutation of TimeIndependentRejected: the assertion is missing.
TimeIndependentRejected_Never(h) == FALSE

\* assert self.time_independent == False
TimeIndependentRejected(h) == h.time_independent # FALSE

\* Mutation of TimeStartOf: de novo sampling starts one timestep late.
TimeStartOf_OneShort(T, ratio) ==
    IF ratio[1] < ratio[2] THEN IntTimes(T, ratio) ELSE T - 1

\* time_start (lines 207-208, 224-225)
TimeStartOf(T, ratio) ==
    IF ratio[1] < ratio[2] THEN IntTimes(T, ratio) ELSE T

\* Mutation of InitialState: the ground truth is ignored and every call starts
\* from the pure-noise draws.
InitialState_PureNoise(batch, T, ratio, d) ==
    [l |-> Const(NumGraphs(batch), d.l_T), x |-> Const(NumNodes(batch), d.x_T),
     t |-> Const(NumNodes(batch), Row(d.k_T, 1))]

\* Mutation of InitialState: the test is diff_ratio <= 1, so a call with
\* diff_ratio = 1 starts from the ground truth corrupted at time_start = T.
InitialState_CorruptAtOne(batch, T, ratio, d) ==
    LET N == NumNodes(batch)
        B == NumGraphs(batch)
        ts == TimeStartOf(T, ratio)
        onehot == OneHot(batch.atom_types)
    IN  IF ratio[1] <= ratio[2]
        THEN [l |-> [g \in 1..B |-> FwdC0(ts) * batch.lattices[g] + FwdC1(ts) * d.rand_l],
              x |-> Wrap([i \in 1..N |-> batch.frac_coords[i] + FwdSigmaX(ts) * d.rand_x]),
              t |-> [i \in 1..N |-> [j \in 1..MAX_ATOMIC_NUM |->
                        FwdC0(ts) * onehot[i][j] + FwdC1(ts) * Row(d.rand_k, 1)[j]]]]
        ELSE [l |-> Const(B, d.l_T), x |-> Const(N, d.x_T), t |-> Const(N, Row(d.k_T, 1))]

\* The state at time_start: pure noise, or the corrupted ground truth when diff_ratio < 1.
\* d holds the random draws: l_T, x_T, t_T (203-205) and rand_l, rand_x, rand_t (212-214).
InitialState(batch, T, ratio, d) ==
    LET N == NumNodes(batch)
        B == NumGraphs(batch)
        ts == TimeStartOf(T, ratio)
        onehot == OneHot(batch.atom_types)
    IN  IF ratio[1] < ratio[2]
        THEN [l |-> [g \in 1..B |-> FwdC0(ts) * batch.lattices[g] + FwdC1(ts) * d.rand_l],
              x |-> Wrap([i \in 1..N |-> batch.frac_coords[i] + FwdSigmaX(ts) * d.rand_x]),
              t |-> [i \in 1..N |-> [j \in 1..MAX_ATOMIC_NUM |->
                        FwdC0(ts) * onehot[i][j] + FwdC1(ts) * Row(d.rand_k, 1)[j]]]]
        ELSE [l |-> Const(B, d.l_T), x |-> Const(N, d.x_T), t |-> Const(N, Row(d.k_T, 1))]

InitDraws ==
    [l_T : {1}, x_T : {3, Unit - 1}, k_T : {MAX_ATOMIC_NUM},
     rand_l : {1}, rand_x : {0, 1}, rand_k : {1}]

\* ------------------------------------------------ the loop body, 236-338
\* Corrector (lines 263-282): x_t_minus_05 = x_t - step_size * pred_x + std_x * rand_x
CorrectorX(tt, x, pred_x, rand_x) ==
    [i \in DOMAIN x |->
        x[i] - CorrStepSize(tt) * pred_x[i] + CorrStdX(tt) * NoiseAt(tt, rand_x[i])]

\* Predictor updates (lines 328-331 of sample, 486-489 of masked_sample).
\* gx, gt are the gradients as they enter the update (gated in masked_sample).
PredictorX(tt, x05, pred_x, gx, rand_x, aug) ==
    [i \in DOMAIN x05 |->
        x05[i] - PredStepSize(tt) * pred_x[i]
               - (PredStdX(tt) * PredStdX(tt)) * aug * gx[i]
               + PredStdX(tt) * NoiseAt(tt, rand_x[i])]

\* Mutation of PredictorL: sample's lattice update loses its guidance term.
PredictorL_NoGuidance(tt, l05, pred_l, gl, rand_l, aug) ==
    [g \in DOMAIN l05 |->
        C0(tt) * (l05[g] - C1(tt) * pred_l[g]) + Sigmas(tt) * NoiseAt(tt, rand_l[g])]

PredictorL(tt, l05, pred_l, gl, rand_l, aug) ==
    [g \in DOMAIN l05 |->
        C0(tt) * (l05[g] - C1(tt) * pred_l[g])
            - (Sigmas(tt) * Sigmas(tt)) * aug * gl[g]
            + Sigmas(tt) * NoiseAt(tt, rand_l[g])]

\* masked_sample's lattice update (line 488): no gradient term
PredictorLMasked(tt, l05, pred_l, rand_l) ==
    [g \in DOMAIN l05 |->
        C0(tt) * (l05[g] - C1(tt) * pred_l[g]) + Sigmas(tt) * NoiseAt(tt, rand_l[g])]

PredictorT(tt, t05, pred_t, gt, rand_t, aug) ==
    [i \in DOMAIN t05 |-> [j \in 1..MAX_ATOMIC_NUM |->
        C0(tt) * (t05[i][j] - C1(tt) * pred_t[i][j])
            - (Sigmas(tt) * Sigmas(tt)) * aug * gt[i][j]
            + Sigmas(tt) * NoiseAt(tt, rand_t[i][j])]]

\* What the three decoder evaluations, the gradient call and the noise draws of one
\* predictor step deliver, for n atoms in b structures.
ZeroStep(n, b) ==
    [pred_x |-> Const(n, 0), pred_l |-> Const(b, 0), pred_t |-> Const(n, Row(0, 0)),
     grad_x |-> Const(n, 0), grad_l |-> Const(b, 0), grad_t |-> Const(n, Row(0, 0)),
     rand_x |-> Const(n, 0), rand_l |-> Const(b, 0), rand_t |-> Const(n, Row(0, 0))]

StepInputs(n, b) ==
    { ZeroStep(n, b) }
    \cup { [ZeroStep(n, b) EXCEPT !.pred_x = Const(n, 1), !.pred_l = Const(b, 1),
                                  !.pred_t = Const(n, Row(k, 1))] : k \in {1, MAX_ATOMIC_NUM} }
    \cup { [ZeroStep(n, b) EXCEPT !.pred_x = Const(n, -1)] }
    \cup { [ZeroStep(n, b) EXCEPT !.grad_x = [i \in 1..n |-> i], !.grad_l = Const(b, 1),
                                  !.grad_t = [i \in 1..n |-> Row(1, i)]] }
    \cup { [ZeroStep(n, b) EXCEPT !.rand_x = Const(n, 1), !.rand_l = Const(b, 1),
                                  !.rand_t = Const(n, Row(MAX_ATOMIC_NUM, 1))] }

\* What the corrector's decoder evaluation and noise draw deliver.
CorrInputs(n) ==
    { [pred_x |-> Const(n, 0), rand_x |-> Const(n, 0)],
      [pred_x |-> Const(n, -1), rand_x |-> Const(n, 0)],
      [pred_x |-> Const(n, 0), rand_x |-> Const(n, 1)] }

\* The gradients as they enter the update: grad * mask in masked_sample (483-484),
\* the gradients themselves in sample.
GatedX(masked, grad_x, mask) ==
    IF masked THEN [i \in DOMAIN grad_x |-> MaskGate(grad_x[i], mask[i])] ELSE grad_x

GatedT(masked, grad_t, mask) ==
    IF masked
    THEN [i \in DOMAIN grad_t |-> [j \in 1..MAX_ATOMIC_NUM |-> MaskGate(grad_t[i][j], mask[i])]]
    ELSE grad_t

\* The three updates of a step (lines 328-331 of sample, 486-489 of
\* masked_sample), from the snapshot under t, the corrector output x05, the
\* step's model outputs, gradients and draws, aug and (masked_sample) the mask.
\* The coordinates are the ones stored: x_t_minus_1 % 1.  Line 488 does not read
\* the mask.
StepX(masked, tt, x05, in, aug, mask) ==
    Wrap(PredictorX(tt, x05, in.pred_x, GatedX(masked, in.grad_x, mask), in.rand_x, aug))

StepL(masked, tt, old, in, aug, mask) ==
    IF masked
    THEN PredictorLMasked(tt, old.lattices, in.pred_l, in.rand_l)
    ELSE PredictorL(tt, old.lattices, in.pred_l, in.grad_l, in.rand_l, aug)

StepT(masked, tt, old, in, aug, mask) ==
    PredictorT(tt, old.atom_types, in.pred_t, GatedT(masked, in.grad_t, mask), in.rand_t, aug)

\* The snapshot a step stores under t - 1 (lines 333-338 of sample, 495-500 of
\* masked_sample).
StepUpdate(masked, tt, num_atoms, old, x05, in, aug, mask) ==
    Snapshot(num_atoms, StepT(masked, tt, old, in, aug, mask),
             StepX(masked, tt, x05, in, aug, mask), StepL(masked, tt, old, in, aug, mask))

\* Mutation of TrajStore: the new snapshot also replaces the ones stored before.
TrajStore_Clobber(tr, k, snap) == (k :> snap) @@ [j \in DOMAIN tr |-> snap]

\* traj[t - 1] = {...} (lines 333-338): one new key, the others untouched
TrajStore(tr, k, snap) == (k :> snap) @@ tr

\* traj_stack (lines 340-345): the snapshots from time_start down to 0
TrajStack(tr, ts, num_atoms) ==
    [num_atoms |-> num_atoms,
     atom_types |-> [k \in 1..(ts + 1) |-> HardTypes(tr[ts + 1 - k].atom_types)],
     all_frac_coords |-> [k \in 1..(ts + 1) |-> tr[ts + 1 - k].frac_coords],
     all_lattices |-> [k \in 1..(ts + 1) |-> tr[ts + 1 - k].lattices]]

\* ------------------------------------------------------------- sampler
NoCall == [method |-> "none"]
NoLast == [t |-> 0]
NoResult == [returned |-> FALSE]

NoNet == [status |-> "none"]
NoOut == [status |-> "none"]
NoFn == [status |-> "none"]

\* The sampler before a call.
SamplerIdle ==
    /\ pc = "idle"
    /\ err = "none"
    /\ call = NoCall
    /\ time_start = 0
    /\ t = 0
    /\ traj = <<>>
    /\ half = <<>>
    /\ reqgrad = AllGrad(FALSE)
    /\ backups = AllGrad(FALSE)
    /\ last = NoLast
    /\ steps = <<>>
    /\ evals = 0
    /\ noise_drawn = FALSE
    /\ soft = <<>>
    /\ result = NoResult

Init ==
    /\ hparams \in HparamsSet
    /\ SamplerIdle
    /\ net = NoNet
    /\ out = NoOut
    /\ fn = NoFn

Masked == call.method = "masked_sample"

\* sample / masked_sample up to the loop (lines 199-234, 353-388): the assertion,
\* the noise draws, time_start and the first snapshot.
Begin(method, batch, ratio, aug, mask, d) ==
    /\ pc = "idle"
    /\ call' = [method |-> method, batch |-> batch, diff_ratio |-> ratio,
                aug |-> aug, mask |-> mask]
    /\ IF TimeIndependentRejected(hparams)
       THEN /\ pc' = "raised"
            /\ err' = "AssertionError"
            /\ UNCHANGED <<time_start, t, traj, noise_drawn>>
       ELSE LET s0 == InitialState(batch, hparams.timesteps, ratio, d)
                ts == TimeStartOf(hparams.timesteps, ratio)
            IN  /\ noise_drawn' = TRUE
                /\ time_start' = ts
                /\ t' = ts
                /\ traj' = (ts :> Snapshot(batch.num_atoms, s0.t, Wrap(s0.x), s0.l))
                /\ pc' = "loop"
                /\ err' = "none"
    /\ UNCHANGED <<hparams, half, reqgrad, backups, last, steps, evals, soft, result, nvars>>

\* One iteration from the loop head into the gradient scope (lines 236-303): the
\* latent_dim check, the corrector with its decoder evaluation, the predictor's
\* decoder evaluation, and RequiresGradContext's __init__ and __enter__.
Corrector(c) ==
    /\ pc = "loop"
    /\ t > 0
    /\ IF hparams.latent_dim > 0
       THEN /\ pc' = "raised"
            /\ err' = "NotImplementedError"
            /\ UNCHANGED <<half, reqgrad, backups, evals>>
       ELSE /\ half' = CorrectorX(t, traj[t].frac_coords, c.pred_x, c.rand_x)
            /\ evals' = evals + 2
            /\ backups' = CtxBackups(reqgrad)
            /\ reqgrad' = CtxEnter(reqgrad, TRUE)
            /\ pc' = "scope"
            /\ err' = "none"
    /\ UNCHANGED <<hparams, call, time_start, t, traj, last, steps, noise_drawn, soft, result, nvars>>

\* The scope raises (lines 304-326): "Invalid prediction level" when neither level
\* is enabled, or the gradient call fails; __exit__ runs as the exception leaves.
Sample_GuidanceRaise ==
    /\ pc = "scope"
    /\ evals' = evals + 1
    /\ reqgrad' = CtxExit(reqgrad, backups)
    /\ pc' = "raised"
    /\ \/ /\ ~hparams.pred_graph_level /\ ~hparams.pred_node_level
          /\ err' = "ValueError"
       \/ /\ hparams.pred_graph_level \/ hparams.pred_node_level
          /\ err' = "RuntimeError"
    /\ UNCHANGED <<hparams, call, time_start, t, traj, half, backups, last, steps,
                   noise_drawn, soft, result, nvars>>

\* The scope completes and the predictor update stores snapshot t - 1
\* (lines 304-338 of sample, 458-500 of masked_sample).
Predictor(in) ==
    /\ pc = "scope"
    /\ hparams.pred_graph_level \/ hparams.pred_node_level
    /\ evals' = evals + 1
    /\ reqgrad' = CtxExit(reqgrad, backups)
    /\ IF Masked /\ Len(call.mask) # Len(in.grad_x)
       THEN /\ pc' = "raised"
            /\ err' = "AssertionError"
            /\ UNCHANGED <<t, traj, last, steps>>
       ELSE /\ traj' = TrajStore(traj, t - 1,
                                 StepUpdate(Masked, t, call.batch.num_atoms, traj[t], half, in,
                                            call.aug, call.mask))
            /\ last' = [t |-> t, x05 |-> half, in |-> in]
            /\ steps' = Append(steps, t)
            /\ t' = t - 1
            /\ pc' = "loop"
            /\ err' = "none"
    /\ UNCHANGED <<hparams, call, time_start, half, backups, noise_drawn, soft, result, nvars>>

\* After the loop (lines 340-350): the stacked trajectory, and traj[0] with its
\* type channel replaced in place by the hard species ids.
Sample_Return ==
    /\ pc = "loop"
    /\ t = 0
    /\ soft' = traj
    /\ LET stack == TrajStack(traj, time_start, call.batch.num_atoms)
           res == [traj[0] EXCEPT !.atom_types = HardTypes(traj[0].atom_types)]
       IN  /\ traj' = [traj EXCEPT ![0] = res]
           /\ result' = [returned |-> TRUE, final |-> res, traj_stack |-> stack]
    /\ pc' = "returned"
    /\ UNCHANGED <<hparams, err, call, time_start, t, half, reqgrad, backups, last,
                   steps, evals, noise_drawn, nvars>>

Sample_Begin ==
    /\ pc = "idle"
    /\ \E batch \in Batches, ratio \in DiffRatios, aug \in Augs, d \in InitDraws :
          Begin("sample", batch, ratio, aug, None, d)

MaskedSample_Begin ==
    /\ pc = "idle"
    /\ \E batch \in Batches, ratio \in DiffRatios, aug \in Augs, d \in InitDraws :
          \E mask \in Masks(NumNodes(batch)) :
              Begin("masked_sample", batch, ratio, aug, mask, d)

Sample_Corrector ==
    /\ pc = "loop"
    /\ \E c \in CorrInputs(NumNodes(call.batch)) : Corrector(c)

Sample_Predictor ==
    /\ pc = "scope"
    /\ \E in \in StepInputs(NumNodes(call.batch), NumGraphs(call.batch)) : Predictor(in)

Next ==
    \/ Sample_Begin
    \/ MaskedSample_Begin
    \/ Sample_Corrector
    \/ Sample_GuidanceRaise
    \/ Sample_Predictor
    \/ Sample_Return

Spec == Init /\ [][Next]_vars

\* ------------------------------------------- CSPNet (cspnet_cfg.py)
\* An optional argument: <<>> is None, <<v>> is the value v.
Nothing == <<>>
Some(v) == <<v>>

\* The constructor arguments the head set-up reads (lines 153-157, 146).
CtorArgs ==
    [pred_graph_level : BOOLEAN, pred_node_level : BOOLEAN,
     pred_dim : {Nothing, Some(1), Some(2)}, cfg : BOOLEAN,
     edge_style : {"fc", "knn", "grid"}]

\* CSPNet.__init__, lines 217-228: "built", or the exception raised.
\* nn.Linear(None, hidden_dim) (line 228, cfg without pred_dim) is a TypeError.
CtorOutcome(a) ==
    IF (a.pred_graph_level \/ a.pred_node_level) /\ a.pred_dim = Nothing
    THEN "ValueError"
    ELSE IF a.cfg /\ a.pred_dim = Nothing
         THEN "TypeError"
         ELSE "built"

\* The batch's node2graph: atom a (0-based) belongs to the structure whose run of
\* num_atoms it falls in.
Offset(num_atoms, g) == Sum(SubSeq(num_atoms, 1, g - 1))
Node2Graph(num_atoms) ==
    [a \in 0..(Sum(num_atoms) - 1) |->
        (CHOOSE g \in 1..Len(num_atoms) :
            Offset(num_atoms, g) <= a /\ a < Offset(num_atoms, g) + num_atoms[g]) - 1]

\* Mutation of OnesBlock: the block's diagonal is left out.
OnesBlock_NoDiagonal(n) ==
    [rc \in (0..(n - 1)) \X (0..(n - 1)) |-> IF rc[1] = rc[2] THEN 0 ELSE 1]

\* torch.ones(n, n) (line 319)
OnesBlock(n) == [rc \in (0..(n - 1)) \X (0..(n - 1)) |-> 1]

\* Mutation of BlockDiag: the entries outside the blocks are ones as well.
BlockDiag_Dense(blocks, sizes) ==
    [rc \in (0..(Sum(sizes) - 1)) \X (0..(Sum(sizes) - 1)) |-> 1]

\* torch.block_diag(*lis) (line 320): the blocks along the diagonal, 0 elsewhere
BlockDiag(blocks, sizes) ==
    LET N == Sum(sizes)
    IN  [rc \in (0..(N - 1)) \X (0..(N - 1)) |->
            IF \E g \in 1..Len(sizes) :
                  /\ Offset(sizes, g) <= rc[1] /\ rc[1] < Offset(sizes, g) + sizes[g]
                  /\ Offset(sizes, g) <= rc[2] /\ rc[2] < Offset(sizes, g) + sizes[g]
            THEN LET g == CHOOSE g \in 1..Len(sizes) :
                            Offset(sizes, g) <= rc[1] /\ rc[1] < Offset(sizes, g) + sizes[g]
                 IN  blocks[g][<<rc[1] - Offset(sizes, g), rc[2] - Offset(sizes, g)>>]
            ELSE 0]

\* dense_to_sparse(adj) (line 321): the positions of the non-zero entries, row by
\* row; an edge is <<edge_index[0][e], edge_index[1][e]>>.
DenseToSparse(adj, N) ==
    LET cells == [p \in 1..(N * N) |-> <<(p - 1) \div N, (p - 1) % N>>]
        NonZero(rc) == adj[rc] # 0
    IN  SelectSeq(cells, NonZero)

\* ------------------------------- reorder_symmetric_edges (230-315)
\* A candidate edge of the neighbour search is [i, j, c]: edge_index[0],
\* edge_index[1] and the integer image offset c = <<c1, c2, c3>>.  An edge vector
\* keeps one component, as a 1-tuple, so that offsets and vectors are both tuples.
Scale(sign, v) == [k \in DOMAIN v |-> sign * v[k]]

\* Mutation of CellEarlier: an offset counts as earlier when any component is negative.
CellEarlier_AnyNegative(c) == c[1] < 0 \/ c[2] < 0 \/ c[3] < 0

\* cell_earlier (lines 258-266)
CellEarlier(c) ==
    \/ c[1] < 0
    \/ (c[1] = 0 /\ c[2] < 0)
    \/ (c[1] = 0 /\ c[2] = 0 /\ c[3] < 0)

\* mask = mask_sep_atoms | (mask_same_atoms & cell_earlier) (lines 256-269)
RetainMask(edge_index, cell_offsets) ==
    [e \in 1..Len(edge_index) |->
        \/ edge_index[e][1] < edge_index[e][2]
        \/ (edge_index[e][1] = edge_index[e][2] /\ CellEarlier(cell_offsets[e]))]

\* tensor[mask]: the entries whose mask is set, in their order
RECURSIVE MaskSelect(_, _)
MaskSelect(tensor, mask) ==
    IF tensor = <<>> THEN <<>>
    ELSE LET rest == MaskSelect(SubSeq(tensor, 1, Len(tensor) - 1),
                                SubSeq(mask, 1, Len(mask) - 1))
         IN  IF mask[Len(mask)] THEN Append(rest, tensor[Len(tensor)]) ELSE rest

\* tensor[idx] for a sequence idx of 0-based positions
Gather(tensor, idx) == [k \in 1..Len(idx) |-> tensor[idx[k] + 1]]

\* torch.repeat_interleave(torch.arange(B), neighbors) (lines 284-287)
RECURSIVE RepeatInterleaveArange(_)
RepeatInterleaveArange(neighbors) ==
    IF neighbors = <<>> THEN <<>>
    ELSE RepeatInterleaveArange(SubSeq(neighbors, 1, Len(neighbors) - 1))
            \o [k \in 1..neighbors[Len(neighbors)] |-> Len(neighbors) - 1]

\* torch.bincount(batch_edge, minlength=B) (lines 289-291)
BinCount(batch_edge, B) ==
    [g \in 1..B |-> Cardinality({ e \in 1..Len(batch_edge) : batch_edge[e] = g - 1 })]

\* repeat_blocks(sizes, repeats=2, continuous_indexing=True, repeat_inc=inc)
\* (dosmatgen/utils/graphs.py): block after block, the block's indices followed
\* by the same indices shifted by inc, so that every structure's edges and their
\* counter-edges are consecutive.
RECURSIVE RepeatBlocks(_, _)
RepeatBlocks(sizes, inc) ==
    IF sizes = <<>> THEN <<>>
    ELSE LET front == SubSeq(sizes, 1, Len(sizes) - 1)
             start == Sum(front)
             n == sizes[Len(sizes)]
         IN  RepeatBlocks(front, inc)
                \o [k \in 1..n |-> start + k - 1]
                \o [k \in 1..n |-> start + k - 1 + inc]

\* Mutation of SelectSymmetricEdges: the counter-edges keep the sign of the edges.
SelectSymmetricEdges_NoNegate(tensor, mask, reorder_idx, inverse_neg) ==
    LET tensor_directed == MaskSelect(tensor, mask)
    IN  Gather(tensor_directed \o tensor_directed, reorder_idx)

\* select_symmetric_edges (lines 230-238)
SelectSymmetricEdges(tensor, mask, reorder_idx, inverse_neg) ==
    LET tensor_directed == MaskSelect(tensor, mask)
        sign == 1 - 2 * (IF inverse_neg THEN 1 ELSE 0)
        tensor_cat == tensor_directed
                        \o [k \in 1..Len(tensor_directed) |-> Scale(sign, tensor_directed[k])]
    IN  Gather(tensor_cat, reorder_idx)

\* reorder_symmetric_edges (lines 240-315); mask is kept beside the four results.
ReorderSymmetricEdges(edge_index, cell_offsets, neighbors, edge_vector) ==
    LET mask == RetainMask(edge_index, cell_offsets)
        edge_index_new == MaskSelect(edge_index, mask)
        edge_index_cat ==
            edge_index_new
                \o [k \in 1..Len(edge_index_new) |-> <<edge_index_new[k][2], edge_index_new[k][1]>>]
        batch_edge == MaskSelect(RepeatInterleaveArange(neighbors), mask)
        neighbors_new == [g \in 1..Len(neighbors) |-> 2 * BinCount(batch_edge, Len(neighbors))[g]]
        edge_reorder_idx ==
            RepeatBlocks([g \in 1..Len(neighbors) |-> neighbors_new[g] \div 2],
                         Len(edge_index_new))
    IN  [mask |-> mask,
         edge_index |-> Gather(edge_index_cat, edge_reorder_idx),
         cell_offsets |-> SelectSymmetricEdges(cell_offsets, mask, edge_reorder_idx, TRUE),
         neighbors |-> neighbors_new,
         edge_vector |-> SelectSymmetricEdges(edge_vector, mask, edge_reorder_idx, TRUE)]

\* ------------------------------------------- gen_edges, forward (317-358)
\* The batch handed to the 'knn' builder: a structure of two atoms and one of one.
KnnNumAtoms == { <<2, 1>> }

\* The fractional coordinate of atom a (0-based) in a batch handed to the 'knn' builder.
KnnFracCoords(num_atoms) == [a \in 0..(Sum(num_atoms) - 1) |-> (3 * a + 1) % Unit]

\* The image offsets a candidate edge can carry: zero, and pairs c, -c whose first
\* non-zero component is the first, the second or the third.
KnnOffsets ==
    { <<0, 0, 0>>, <<-1, 0, 0>>, <<1, 0, 0>>, <<0, -1, 1>>, <<0, 1, -1>>,
      <<0, 0, -1>>, <<0, 0, 1>> }

\* radius_graph_pbc (dosmatgen/utils/graphs.py): up to MaxEdges candidate edges,
\* each between atoms of one structure (an atom and its own images included),
\* listed structure by structure.
KnnPool(num_atoms) ==
    { [i |-> i, j |-> j, c |-> c] :
        i \in 0..(Sum(num_atoms) - 1), j \in 0..(Sum(num_atoms) - 1), c \in KnnOffsets }

RadiusGraphPbc(num_atoms) ==
    LET node2graph == Node2Graph(num_atoms)
        pool == { e \in KnnPool(num_atoms) : node2graph[e.i] = node2graph[e.j] }
    IN  { f \in UNION { [1..k -> pool] : k \in 0..MaxEdges } :
            \A e \in 1..(Len(f) - 1) : node2graph[f[e].i] <= node2graph[f[e + 1].i] }

\* num_bonds: the number of candidate edges of every structure
NumBonds(found, num_atoms) ==
    LET node2graph == Node2Graph(num_atoms)
    IN  [g \in 1..Len(num_atoms) |->
            Cardinality({ e \in 1..Len(found) : node2graph[found[e].i] = g - 1 })]

\* distance_vectors (lines 338-340)
DistanceVectors(found, frac_coords) ==
    [e \in 1..Len(found) |->
        <<frac_coords[found[e].i] - frac_coords[found[e].j] + found[e].c[1] * Unit>>]

\* The 'knn' branch's call of reorder_symmetric_edges (lines 342-347)
KnnReordered(num_atoms, found) ==
    ReorderSymmetricEdges([e \in 1..Len(found) |-> <<found[e].i, found[e].j>>],
                          [e \in 1..Len(found) |-> found[e].c],
                          NumBonds(found, num_atoms),
                          DistanceVectors(found, KnnFracCoords(num_atoms)))

\* Mutation of GenEdges: a style that is neither 'fc' nor 'knn' is treated as 'fc'.
GenEdges_DefaultFc(edge_style, num_atoms, found) ==
    IF edge_style = "knn"
    THEN Some(KnnReordered(num_atoms, found).edge_index)
    ELSE Some(DenseToSparse(
            BlockDiag([g \in 1..Len(num_atoms) |-> OnesBlock(num_atoms[g])], num_atoms),
            Sum(num_atoms)))

\* gen_edges (lines 317-349), the edges it returns: the 'fc' branch, the 'knn'
\* branch on what the neighbour search found; any style the if-chain does not
\* name falls off the end of the function and returns None.
GenEdges(edge_style, num_atoms, found) ==
    IF edge_style = "fc"
    THEN Some(DenseToSparse(
            BlockDiag([g \in 1..Len(num_atoms) |-> OnesBlock(num_atoms[g])], num_atoms),
            Sum(num_atoms)))
    ELSE IF edge_style = "knn"
         THEN Some(KnnReordered(num_atoms, found).edge_index)
         ELSE Nothing

\* edge2graph = node2graph[edges[0]] (line 358)
Edge2Graph(edges, node2graph) == [e \in 1..Len(edges) |-> node2graph[edges[e][1]]]

\* Batches of the backbone: per-structure atom counts.
NumAtomsLists ==
    UNION { [1..k -> 1..MaxAtomsPerStruct] : k \in 1..MaxStructs }

\* CSPNet(**args)
Net_Construct ==
    /\ net.status = "none"
    /\ \E a \in CtorArgs :
          net' = [status |-> CtorOutcome(a), args |-> a,
                  heads |-> [graph_out |-> a.pred_graph_level,
                             node_out |-> a.pred_node_level]]
    /\ UNCHANGED <<out, fn, svars>>

\* The batches handed to forward: atom counts, and for 'knn' what the neighbour
\* search finds in the batch (here: nothing, or a single candidate edge).
NoSearch == <<>>
ForwardInputs(edge_style) ==
    IF edge_style = "knn"
    THEN UNION { { [num_atoms |-> na, found |-> f] :
                     f \in { h \in RadiusGraphPbc(na) : Len(h) <= 1 } } :
                 na \in KnnNumAtoms }
    ELSE { [num_atoms |-> na, found |-> NoSearch] : na \in NumAtomsLists }

\* CSPNet.forward up to edge2graph (lines 351-358): unpacking gen_edges' None is
\* a TypeError.
Net_Forward ==
    /\ net.status = "built"
    /\ out.status = "none"
    /\ \E in \in ForwardInputs(net.args.edge_style) :
          LET got == GenEdges(net.args.edge_style, in.num_atoms, in.found)
          IN  IF got = Nothing
              THEN out' = [status |-> "TypeError", num_atoms |-> in.num_atoms]
              ELSE out' = [status |-> "ok", num_atoms |-> in.num_atoms,
                           found |-> in.found,
                           edges |-> got[1],
                           edge2graph |-> Edge2Graph(got[1], Node2Graph(in.num_atoms))]
    /\ UNCHANGED <<net, fn, svars>>

InitNet ==
    /\ hparams = BaseHparams @@ [timesteps |-> 1]
    /\ SamplerIdle
    /\ net = NoNet
    /\ out = NoOut
    /\ fn = NoFn

NextNet == Net_Construct \/ Net_Forward

SpecNet == InitNet /\ [][NextNet]_vars


\* --------------------------------------- lap and training_step (551-583)
\* 2 ** k, the stand-in for exp(k) in the softmax
RECURSIVE Pow2(_)
Pow2(k) == IF k = 0 THEN 1 ELSE 2 * Pow2(k - 1)

RECURSIVE Product(_)
Product(s) == IF s = <<>> THEN 1 ELSE Head(s) * Product(Tail(s))

\* The permutations of 0 .. n-1
Perms(n) == { f \in [0..(n - 1) -> 0..(n - 1)] : \A a, b \in 0..(n - 1) : f[a] = f[b] => a = b }

\* probs[st:ed][:, types_crys] (lines 558-560): entry (a, b) is what atom a of the
\* structure gives to the species of atom b; st is the structure's first atom.
ProbsCrys(probs, types, st, n) ==
    [a \in 0..(n - 1) |-> [b \in 0..(n - 1) |-> probs[st + a + 1][types[st + b + 1]]]]

\* F.softmax(probs_crys, dim=-1) (line 561) as a fraction: the numerators, and one
\* denominator per row.
SoftmaxNum(P, n) == [a \in 0..(n - 1) |-> [b \in 0..(n - 1) |-> Pow2(P[a][b])]]
SoftmaxDen(P, n) == [a \in 1..n |-> Sum([b \in 1..n |-> Pow2(P[a - 1][b - 1])])]

\* The total softmax weight of a column assignment, over the common denominator
\* (the product of the row denominators); num and den are the softmax's
\* numerators and row denominators.
AssignmentWeight(num, den, n, f) ==
    Sum([a \in 1..n |->
            num[a - 1][f[a - 1]] * Product([k \in 1..n |-> IF k = a THEN 1 ELSE den[k]])])

\* Mutation of LapAssignments: every atom takes its own best column, whether or
\* not another atom took it.
LapAssignments_RowArgMax(P, n) ==
    { [a \in 0..(n - 1) |->
         CHOOSE b \in 0..(n - 1) :
            /\ \A c \in 0..(n - 1) : P[a][c] <= P[a][b]
            /\ \A c \in 0..(n - 1) : c < b => P[a][c] < P[a][b]] }

\* linear_sum_assignment(-probs_crys)[1] (line 562): the column of every row in
\* an assignment of least total cost; any of them when several are optimal.
LapAssignments(P, n) ==
    LET perms == Perms(n)
        num == SoftmaxNum(P, n)
        den == SoftmaxDen(P, n)
        weight == [f \in perms |-> AssignmentWeight(num, den, n, f)]
        best == CHOOSE w \in { weight[f] : f \in perms } :
                    \A h \in perms : weight[h] <= w
    IN  { f \in perms : weight[f] = best }

\* One assignment per structure, structure after structure (the loop of line 557).
RECURSIVE LapChoices(_, _, _, _)
LapChoices(probs, types, num_atoms, g) ==
    IF g = 0 THEN { <<>> }
    ELSE { Append(c, f) :
             c \in LapChoices(probs, types, num_atoms, g - 1),
             f \in LapAssignments(ProbsCrys(probs, types, Offset(num_atoms, g), num_atoms[g]),
                                  num_atoms[g]) }

\* torch.cat(res_types) with types_crys[assignment] + 1 per structure (563-565)
LapResult(types, num_atoms, choice) ==
    [i \in 1..Sum(num_atoms) |->
        LET g == Node2Graph(num_atoms)[i - 1] + 1
            st == Offset(num_atoms, g)
        IN  types[st + choice[g][i - 1 - st] + 1]]

\* The calls of lap: the atom counts of small batches, one species per atom and
\* one row of scores per atom.
LapNumAtoms == { na \in NumAtomsLists : Sum(na) <= MaxAtomsPerStruct }
ProbRows == { Row(1, 1), Row(MAX_ATOMIC_NUM, 1) }
LapCalls ==
    UNION { { [op |-> "lap", status |-> "called", num_atoms |-> na, types |-> ty, probs |-> pr] :
                ty \in [1..Sum(na) -> 1..MAX_ATOMIC_NUM], pr \in [1..Sum(na) -> ProbRows] } :
            na \in LapNumAtoms }

\* A loss: NaN, plus or minus infinity, or a finite number.
MaxLoss == 3
NaN == <<"nan">>
Inf(sign) == <<"inf", sign>>
Num(v) == <<"num", v>>
Losses == { NaN, Inf(1), Inf(-1) } \cup { Num(v) : v \in 0..MaxLoss }

\* loss.isnan()
IsNan(loss) == loss[1] = "nan"

\* Mutation of TrainingStepReturn: every non-finite loss is skipped.
TrainingStepReturn_SkipNonFinite(loss) == IF loss[1] # "num" THEN Nothing ELSE Some(loss)

\* if loss.isnan(): return None; return loss (lines 580-583)
TrainingStepReturn(loss) == IF IsNan(loss) THEN Nothing ELSE Some(loss)

TrainCalls == { [op |-> "training_step", status |-> "called", loss |-> l] : l \in Losses }

\* The calls of reorder_symmetric_edges made by the 'knn' branch on the given
\* batches: a batch and what the neighbour search found in it.
ReorderCalls(batches) ==
    UNION { { [op |-> "reorder_symmetric_edges", status |-> "called",
               num_atoms |-> na, found |-> f] : f \in RadiusGraphPbc(na) } :
            na \in batches }

\* lap(probs, types, num_atoms)
Lap_Call ==
    /\ fn.status = "called"
    /\ fn.op = "lap"
    /\ \E choice \in LapChoices(fn.probs, fn.types, fn.num_atoms, Len(fn.num_atoms)) :
          fn' = [fn EXCEPT !.status = "returned"]
                   @@ [result |-> LapResult(fn.types, fn.num_atoms, choice)]
    /\ UNCHANGED <<net, out, svars>>

\* training_step(batch, batch_idx) once forward has returned the loss: the loss
\* is logged, then the NaN test decides what is returned.
TrainingStep_Call ==
    /\ fn.status = "called"
    /\ fn.op = "training_step"
    /\ fn' = [fn EXCEPT !.status = "returned"]
                @@ [logged |-> fn.loss, result |-> TrainingStepReturn(fn.loss)]
    /\ UNCHANGED <<net, out, svars>>

\* reorder_symmetric_edges(edge_index, to_jimages, num_bonds, distance_vectors)
\* as gen_edges calls it (lines 338-347)
Reorder_Call ==
    /\ fn.status = "called"
    /\ fn.op = "reorder_symmetric_edges"
    /\ fn' = [fn EXCEPT !.status = "returned"]
                @@ [result |-> KnnReordered(fn.num_atoms, fn.found)]
    /\ UNCHANGED <<net, out, svars>>

InitFn ==
    /\ hparams = BaseHparams @@ [timesteps |-> 1]
    /\ SamplerIdle
    /\ net = NoNet
    /\ out = NoOut
    /\ fn \in LapCalls \cup TrainCalls \cup ReorderCalls(KnnNumAtoms)

NextFn == Lap_Call \/ TrainingStep_Call \/ Reorder_Call

SpecFn == InitFn /\ [][NextFn]_vars

\* ------------------- RequiresGradContext on tensors and modules (51-77)
\* The objects a context can wrap: a tensor carries one requires_grad flag, an
\* nn.Module one flag per parameter, in the order of parameters().
MaxParams == 2
MaxObjs == 2

Tensor(b) == [kind |-> "tensor", rg |-> <<b>>]
Module(ps) == [kind |-> "module", rg |-> ps]

CtxObjects ==
    { Tensor(b) : b \in BOOLEAN }
    \cup { Module(ps) : ps \in UNION { [1..k -> BOOLEAN] : k \in 1..MaxParams } }

\* judge_requires_grad (lines 51-57): a tensor's flag; for a module the flag of
\* the first parameter, next(obj.parameters()).requires_grad
JudgeRequiresGrad(obj) ==
    IF obj.kind = "tensor" THEN obj.rg[1] ELSE Head(obj.rg)

\* obj.requires_grad_(v): a tensor's flag, or the flag of every parameter of a module
RequiresGrad_(obj, v) == [obj EXCEPT !.rg = [p \in DOMAIN obj.rg |-> v]]

\* The requires_grad argument: a bool, or a list with one bool per object
BoolArg(b) == <<"bool", b>>
ListArg(l) == <<"list", l>>

\* self.requires_grads (lines 63-66)
ObjRequiresGrads(n, requires_grad) ==
    IF requires_grad[1] = "bool" THEN Const(n, requires_grad[2]) ELSE requires_grad[2]

\* self.backups = [judge_requires_grad(obj) for obj in objs] (line 62)
ObjBackups(objs) == [o \in 1..Len(objs) |-> JudgeRequiresGrad(objs[o])]

\* __enter__ (lines 71-73)
ObjEnter(objs, requires_grads) ==
    [o \in 1..Len(objs) |-> RequiresGrad_(objs[o], requires_grads[o])]

\* __exit__ (lines 75-77)
ObjExit(objs, saved) ==
    [o \in 1..Len(objs) |-> RequiresGrad_(objs[o], saved[o])]

\* The constructions RequiresGradContext(*objs, requires_grad=..) over the given
\* objects: one to MaxObjs of them, with a bool or with a list of one to MaxObjs bools.
CtxCalls(objects) ==
    { [op |-> "RequiresGradContext", status |-> "called", objs |-> os, requires_grad |-> rg,
       backups |-> <<>>, requires_grads |-> <<>>, before |-> <<>>,
       touched |-> FALSE, raised |-> FALSE] :
        os \in UNION { [1..k -> objects] : k \in 1..MaxObjs },
        rg \in { BoolArg(b) : b \in BOOLEAN }
               \cup { ListArg(l) : l \in UNION { [1..k -> BOOLEAN] : k \in 1..MaxObjs } } }

\* __init__ (lines 60-68)
Ctx_Construct ==
    /\ fn.status = "called"
    /\ fn.op = "RequiresGradContext"
    /\ LET rgs == ObjRequiresGrads(Len(fn.objs), fn.requires_grad)
       IN  IF Len(fn.objs) # Len(rgs)
           THEN fn' = [fn EXCEPT !.status = "AssertionError"]
           ELSE fn' = [fn EXCEPT !.status = "constructed",
                                 !.backups = ObjBackups(fn.objs),
                                 !.requires_grads = rgs]
    /\ UNCHANGED <<net, out, svars>>

\* The caller sets the flag of one parameter of a wrapped object, after the
\* context was constructed and before it is entered.
Ctx_Touch ==
    /\ fn.status = "constructed"
    /\ ~fn.touched
    /\ \E o \in 1..Len(fn.objs) : \E p \in DOMAIN fn.objs[o].rg : \E v \in BOOLEAN :
          fn' = [fn EXCEPT !.objs[o].rg[p] = v, !.touched = TRUE]
    /\ UNCHANGED <<net, out, svars>>

\* with ctx: (__enter__); before keeps the flags as they were at that moment
Ctx_Enter ==
    /\ fn.status = "constructed"
    /\ fn' = [fn EXCEPT !.status = "entered",
                        !.before = fn.objs,
                        !.objs = ObjEnter(fn.objs, fn.requires_grads)]
    /\ UNCHANGED <<net, out, svars>>

\* The scope is left, by falling off its end or by an exception (__exit__ returns
\* None, so the exception propagates after the flags are written).
Ctx_Exit ==
    /\ fn.status = "entered"
    /\ \E exc \in BOOLEAN :
          fn' = [fn EXCEPT !.status = "exited",
                           !.objs = ObjExit(fn.objs, fn.backups),
                           !.raised = exc]
    /\ UNCHANGED <<net, out, svars>>

InitCtx ==
    /\ hparams = BaseHparams @@ [timesteps |-> 1]
    /\ SamplerIdle
    /\ net = NoNet
    /\ out = NoOut
    /\ fn \in CtxCalls(CtxObjects)

NextCtx == Ctx_Construct \/ Ctx_Touch \/ Ctx_Enter \/ Ctx_Exit

SpecCtx == InitCtx /\ [][NextCtx]_vars

\* ------------------------------------------------------------- claims
NAtoms == NumNodes(call.batch)
DeNovo == call.diff_ratio[1] >= call.diff_ratio[2]
ValidMask == Masked => Len(call.mask) = NAtoms
InTorus(x) == \A i \in DOMAIN x : x[i] \in 0..(Unit - 1)

\* C1: a call with diff_ratio >= 1 that returns has performed exactly T reverse
\* steps, for t = T, T-1, ..., 1 in that order, and its trajectory has exactly the
\* T+1 keys T, ..., 0, all of them stacked.
C1_StepsAndKeys ==
    (pc = "returned" /\ DeNovo) =>
        LET T == hparams.timesteps
        IN  /\ steps = [k \in 1..T |-> T + 1 - k]
            /\ DOMAIN traj = 0..T
            /\ Len(result.traj_stack.all_frac_coords) = T + 1
            /\ Len(result.traj_stack.all_lattices) = T + 1
            /\ Len(result.traj_stack.atom_types) = T + 1

C1_Witness ==
    /\ pc = "returned" /\ DeNovo /\ Masked /\ ValidMask
    /\ hparams.timesteps = MaxT
    /\ Len(steps) = MaxT

\* C2 (as claimed): the coordinates of every trajectory snapshot are in [0,1), and
\* so is the corrector output x_t_minus_05 that the predictor's evaluations receive.
C2_AllWrapped ==
    /\ \A k \in DOMAIN traj : InTorus(traj[k].frac_coords)
    /\ pc = "scope" => InTorus(half)

\* C3: after a step of masked_sample, an atom whose mask entry is 0 has the
\* coordinate and type update without any guidance term, and an atom whose mask
\* entry is 1 has it with the full aug-weighted gradient.
C3_MaskGatesGuidance ==
    (Masked /\ last.t # 0 /\ pc # "returned") =>
        LET tt == last.t
            in == last.in
            new == traj[tt - 1]
            old == traj[tt]
        IN  \A i \in 1..NAtoms :
              LET gx == IF call.mask[i] = 0 THEN 0 ELSE call.aug * in.grad_x[i]
                  gt(j) == IF call.mask[i] = 0 THEN 0 ELSE call.aug * in.grad_t[i][j]
              IN  /\ (call.mask[i] = 0 \/ call.mask[i] = 1)
                  /\ new.frac_coords[i] =
                        (last.x05[i] - PredStepSize(tt) * in.pred_x[i]
                            - PredStdX(tt) * PredStdX(tt) * gx
                            + PredStdX(tt) * (IF tt > 1 THEN in.rand_x[i] ELSE 0)) % Unit
                  /\ \A j \in 1..MAX_ATOMIC_NUM :
                        new.atom_types[i][j] =
                            C0(tt) * (old.atom_types[i][j] - C1(tt) * in.pred_t[i][j])
                              - Sigmas(tt) * Sigmas(tt) * gt(j)
                              + Sigmas(tt) * (IF tt > 1 THEN in.rand_t[i][j] ELSE 0)

C3_Witness ==
    /\ Masked /\ last.t # 0 /\ pc = "loop" /\ call.aug # 0
    /\ \E i, k \in 1..NAtoms :
          /\ call.mask[i] = 0 /\ last.in.grad_x[i] # 0 /\ last.in.grad_t[i][1] # 0
          /\ call.mask[k] = 1 /\ last.in.grad_x[k] # 0

\* C4: with a time-independent module every call is rejected before anything is
\* computed: no noise is drawn, no snapshot exists and no decoder is evaluated.
C4_TimeIndependentRejected ==
    hparams.time_independent =>
        /\ pc \in {"idle", "raised"}
        /\ pc = "raised" => err = "AssertionError"
        /\ ~noise_drawn
        /\ DOMAIN traj = {}
        /\ evals = 0
        /\ ~result.returned

C4_Witness ==
    /\ hparams.time_independent /\ pc = "raised" /\ Masked

\* C5 (as claimed): with latent_dim > 0 no call returns, and no decoder is evaluated.
C5_LatentNeverReturns ==
    hparams.latent_dim > 0 => (pc # "returned" /\ evals = 0)

\* C6 (as claimed): when the mask length differs from the number of atoms, the
\* call touches nothing: no snapshot, no corrector output, no decoder evaluation.
C6_MaskCheckedFirst ==
    (Masked /\ Len(call.mask) # NAtoms) =>
        /\ DOMAIN traj = {}
        /\ half = <<>>
        /\ evals = 0
        /\ pc # "returned"

\* C7: entering the gradient scope records each tensor's requires_grad and sets it
\* to True; the flags stay True inside the scope; leaving the scope, normally or
\* by an exception, gives each tensor the value it had before the scope.
C7_GradScopeRestores ==
    [][ /\ (pc # "scope" /\ pc' = "scope") =>
              (backups' = reqgrad /\ \A o \in DOMAIN reqgrad' : reqgrad'[o] = TRUE)
        /\ pc = "scope" => (\A o \in DOMAIN reqgrad : reqgrad[o] = TRUE)
        /\ (pc = "scope" /\ pc' # "scope") => reqgrad' = backups
      ]_vars

C7_Witness ==
    /\ pc = "raised" /\ err = "ValueError" /\ evals > 0
    /\ reqgrad = AllGrad(FALSE)

\* C10: when a call returns, every atom type of the final structure and of every
\* stacked timestep is a species id in 1..MAX_ATOMIC_NUM, namely the position
\* (counted from 1) of the first largest entry of that atom's type vector.
IsArgMaxPlusOne(id, row) ==
    /\ id \in 1..MAX_ATOMIC_NUM
    /\ \A j \in 1..MAX_ATOMIC_NUM : row[j] <= row[id]
    /\ \A j \in 1..(id - 1) : row[j] < row[id]

C10_HardTypesInRange ==
    pc = "returned" =>
        /\ \A i \in 1..NAtoms :
              IsArgMaxPlusOne(result.final.atom_types[i], soft[0].atom_types[i])
        /\ \A k \in 1..(time_start + 1) : \A i \in 1..NAtoms :
              IsArgMaxPlusOne(result.traj_stack.atom_types[k][i],
                              soft[time_start + 1 - k].atom_types[i])

C10_Witness ==
    /\ pc = "returned" /\ time_start = MaxT
    /\ \E i, k \in 1..NAtoms :
          /\ result.final.atom_types[i] = MAX_ATOMIC_NUM
          /\ result.final.atom_types[k] = 1

\* C8 (as claimed): construction succeeds exactly when one of the two prediction
\* levels is enabled and pred_dim is given; neither level, both levels, or a level
\* without pred_dim is an error raised by the constructor.
C8_ExactlyOneLevelOrError ==
    net.status # "none" =>
        (net.status = "built" <=>
            /\ net.args.pred_graph_level # net.args.pred_node_level
            /\ net.args.pred_dim # Nothing)

Count(seq, v) == Cardinality({e \in 1..Len(seq) : seq[e] = v})
NonDecreasing(seq) == \A e \in 1..(Len(seq) - 1) : seq[e] <= seq[e + 1]
SumOver(num_atoms, f(_)) == Sum([g \in 1..Len(num_atoms) |-> f(num_atoms[g])])
Pairs(n) == n * (n - 1)
Square(n) == n * n

\* forward has built the edges of a batch with the fully-connected builder
FcOut == out.status = "ok" /\ net.args.edge_style = "fc"
\* reorder_symmetric_edges has returned
Reordered == fn.status = "returned" /\ fn.op = "reorder_symmetric_edges"

\* C9 (as claimed): the fully-connected builder yields sum n_i*(n_i-1) edges, none
\* a self-loop, and edge2graph lists structure i exactly n_i*(n_i-1) times in
\* non-decreasing order; num_atoms = [2,3] gives 8 edges.
C9_NoSelfLoops ==
    FcOut =>
        /\ Len(out.edges) = SumOver(out.num_atoms, Pairs)
        /\ \A e \in 1..Len(out.edges) : out.edges[e][1] # out.edges[e][2]
        /\ NonDecreasing(out.edge2graph)
        /\ \A g \in 1..Len(out.num_atoms) :
              Count(out.edge2graph, g - 1) = Pairs(out.num_atoms[g])
        /\ out.num_atoms = <<2, 3>> =>
              out.edge2graph = <<0, 0, 1, 1, 1, 1, 1, 1>>

\* C9 (amended): the fully-connected builder yields sum n_i*n_i edges, among them
\* exactly one self-loop per atom, and edge2graph lists structure i exactly
\* n_i*n_i times in non-decreasing order; num_atoms = [2,3] gives 13 edges with
\* edge2graph = [0,0,0,0,1,1,1,1,1,1,1,1,1].
C9_AllPairsWithSelfLoops ==
    FcOut =>
        /\ Len(out.edges) = SumOver(out.num_atoms, Square)
        /\ \A a \in 0..(Sum(out.num_atoms) - 1) : Count(out.edges, <<a, a>>) = 1
        /\ NonDecreasing(out.edge2graph)
        /\ \A g \in 1..Len(out.num_atoms) :
              Count(out.edge2graph, g - 1) = Square(out.num_atoms[g])
        /\ out.num_atoms = <<2, 3>> =>
              /\ Len(out.edges) = 13
              /\ out.edge2graph = <<0, 0, 0, 0, 1, 1, 1, 1, 1, 1, 1, 1, 1>>

C9_Witness ==
    /\ FcOut /\ out.num_atoms = <<2, 3>>
    /\ Len(out.edges) = 13

\* C11: during the reverse loop the trajectory only grows, one key at a time and
\* in order: while the loop runs the keys are exactly t .. time_start, so the
\* snapshot under key t that a step reads is the one written last (by the step
\* for t+1, or by the initialisation when t = time_start); a completed step adds
\* the single new key t-1; no transition of the loop changes or removes a
\* snapshot stored earlier.
C11_AppendOnly ==
    [][ (pc \in {"loop", "scope"} /\ pc' # "returned") =>
          /\ DOMAIN traj = t..time_start
          /\ \A k \in DOMAIN traj : k \in DOMAIN traj' /\ traj'[k] = traj[k]
          /\ IF steps' # steps
             THEN /\ steps' = Append(steps, t)
                  /\ (t - 1) \notin DOMAIN traj
                  /\ DOMAIN traj' = DOMAIN traj \cup {t - 1}
                  /\ t' = t - 1
                  /\ IF steps = <<>> THEN t = time_start
                                     ELSE steps[Len(steps)] = t + 1
             ELSE traj' = traj
      ]_vars

C11_Witness ==
    /\ pc = "loop" /\ ~Masked
    /\ steps = <<2, 1>>
    /\ DOMAIN traj = 0..2
    /\ traj[2] # traj[1] /\ traj[1] # traj[0]

\* C12: a call with 0 <= diff_ratio < 1 has time_start = int(T * diff_ratio), its
\* first snapshot, stored under key time_start, is the forward corruption of the
\* batch's own structure at time_start (for some noise draw), and when it returns
\* it has performed exactly the steps time_start, ..., 1 and its trajectory has
\* exactly the keys time_start, ..., 0, the final structure being the one under
\* key 0; a call with diff_ratio >= 1 has time_start = T and a first snapshot of
\* pure noise that owes nothing to the batch's structure.
StartSnapshot == IF pc = "returned" THEN soft[time_start] ELSE traj[time_start]

IsCorruptionOf(snap, batch, ts) ==
    \E d \in InitDraws :
        /\ snap.lattices =
              [g \in 1..NumGraphs(batch) |-> FwdC0(ts) * batch.lattices[g] + FwdC1(ts) * d.rand_l]
        /\ snap.frac_coords =
              [i \in 1..NumNodes(batch) |->
                  (batch.frac_coords[i] + FwdSigmaX(ts) * d.rand_x) % Unit]
        /\ snap.atom_types =
              [i \in 1..NumNodes(batch) |-> [j \in 1..MAX_ATOMIC_NUM |->
                  FwdC0(ts) * (IF batch.atom_types[i] = j THEN 1 ELSE 0)
                      + FwdC1(ts) * (IF d.rand_k = j THEN 1 ELSE 0)]]

IsPureNoise(snap, batch) ==
    \E d \in InitDraws :
        /\ snap.lattices = [g \in 1..NumGraphs(batch) |-> d.l_T]
        /\ snap.frac_coords = [i \in 1..NumNodes(batch) |-> d.x_T % Unit]
        /\ snap.atom_types =
              [i \in 1..NumNodes(batch) |-> [j \in 1..MAX_ATOMIC_NUM |->
                  IF d.k_T = j THEN 1 ELSE 0]]

C12_PartialStart ==
    (pc \in {"loop", "scope", "returned"}) =>
        LET T == hparams.timesteps
            r == call.diff_ratio
        IN  /\ time_start \in DOMAIN traj
            /\ StartSnapshot.num_atoms = call.batch.num_atoms
            /\ IF r[1] < r[2]
               THEN /\ time_start = (T * r[1]) \div r[2]
                    /\ IsCorruptionOf(StartSnapshot, call.batch, time_start)
               ELSE /\ time_start = T
                    /\ IsPureNoise(StartSnapshot, call.batch)
            /\ pc = "returned" =>
                  /\ steps = [k \in 1..time_start |-> time_start + 1 - k]
                  /\ DOMAIN traj = 0..time_start
                  /\ result.final = traj[0]
                  /\ Len(result.traj_stack.all_frac_coords) = time_start + 1
                  /\ result.traj_stack.all_frac_coords[time_start + 1] = traj[0].frac_coords
                  /\ result.traj_stack.all_frac_coords[1] = StartSnapshot.frac_coords

C12_Witness ==
    /\ pc = "returned" /\ Masked /\ ValidMask
    /\ call.diff_ratio = <<1, 2>> /\ hparams.timesteps = 2
    /\ time_start = 1 /\ steps = <<1>>
    /\ ~IsPureNoise(soft[1], call.batch)

\* C16: in the step for t = 1 no noise enters an update: the corrector output is
\* x_t minus the scaled score alone, and the snapshot stored under key 0 is the
\* update computed from the snapshot under key 1, the corrector output, the model
\* outputs and the gradients with every noise term absent; in a step for t > 1
\* the drawn corrector noise, coordinate noise, lattice noise and type noise are
\* each added with their scale.
Noiseless(in) ==
    [in EXCEPT !.rand_x = [i \in DOMAIN in.rand_x |-> 0],
               !.rand_l = [g \in DOMAIN in.rand_l |-> 0],
               !.rand_t = [i \in DOMAIN in.rand_t |-> [j \in 1..MAX_ATOMIC_NUM |-> 0]]]

C16_NoNoiseAtLastStep ==
    [][ /\ (pc = "loop" /\ pc' = "scope") =>
              \E c \in CorrInputs(NAtoms) : \A i \in 1..NAtoms :
                  half'[i] = traj[t].frac_coords[i] - CorrStepSize(t) * c.pred_x[i]
                                + (IF t = 1 THEN 0 ELSE CorrStdX(t) * c.rand_x[i])
        /\ (pc = "scope" /\ pc' = "loop") =>
              LET in == last'.in
                  det == StepUpdate(Masked, t, call.batch.num_atoms, traj[t], half,
                                    Noiseless(in), call.aug, call.mask)
                  new == traj'[t - 1]
              IN  IF t = 1
                  THEN new = det
                  ELSE /\ \A i \in 1..NAtoms :
                            /\ new.frac_coords[i] =
                                  (det.frac_coords[i] + PredStdX(t) * in.rand_x[i]) % Unit
                            /\ \A j \in 1..MAX_ATOMIC_NUM :
                                  new.atom_types[i][j] =
                                      det.atom_types[i][j] + Sigmas(t) * in.rand_t[i][j]
                       /\ \A g \in DOMAIN new.lattices :
                            new.lattices[g] = det.lattices[g] + Sigmas(t) * in.rand_l[g]
      ]_vars

C16_Witness ==
    /\ pc = "loop" /\ steps = <<2, 1>> /\ last.t = 1
    /\ last.in.rand_x[1] # 0 /\ last.in.rand_l[1] # 0 /\ last.in.rand_t[1][MAX_ATOMIC_NUM] # 0
    /\ traj[0] = StepUpdate(Masked, 1, call.batch.num_atoms, traj[1], last.x05,
                            Noiseless(last.in), call.aug, call.mask)

\* C17: in every predictor step, from the step's snapshot, corrector output, model
\* outputs, gradients and draws: (a) the lattice update of masked_sample is that
\* of sample without the term sigmas^2 * aug * grad_l, and is the same for every
\* aug, every mask and every lattice gradient; (b) the coordinate and type updates
\* of masked_sample with an all-ones mask are those of sample; (c) with aug = 0
\* the two samplers store the same snapshot, for every 0/1 mask of one entry per
\* atom.  The snapshot the step stores is the running sampler's own of the two.
ValidMasks(n) == [1..n -> {0, 1}]

C17_MaskedVersusSample ==
    [][ (pc = "scope" /\ pc' = "loop") =>
          LET in == last'.in
              na == call.batch.num_atoms
              B == NumGraphs(call.batch)
              old == traj[t]
              ones == Const(NAtoms, 1)
              nogl == [in EXCEPT !.grad_l = Const(B, 0)]
              sx(aug) == StepX(FALSE, t, half, in, aug, None)
              sl(aug) == StepL(FALSE, t, old, in, aug, None)
              st(aug) == StepT(FALSE, t, old, in, aug, None)
              ml0 == StepL(TRUE, t, old, in, 0, ones)
          IN  /\ traj'[t - 1] =
                    StepUpdate(Masked, t, na, old, half, in, call.aug,
                               IF Masked THEN call.mask ELSE None)
              \* (a)
              /\ \A aug \in Augs :
                    LET l == sl(aug)
                    IN  /\ \A g \in 1..B :
                              ml0[g] = l[g] + Sigmas(t) * Sigmas(t) * aug * in.grad_l[g]
                        /\ \A mask \in ValidMasks(NAtoms) :
                              /\ StepL(TRUE, t, old, in, aug, mask) = ml0
                              /\ StepL(TRUE, t, old, nogl, aug, mask) = ml0
              \* (b)
              /\ \A aug \in Augs \ {0} :
                    /\ StepX(TRUE, t, half, in, aug, ones) = sx(aug)
                    /\ StepT(TRUE, t, old, in, aug, ones) = st(aug)
              \* (b) for aug = 0, and (c)
              /\ LET smp0 == StepUpdate(FALSE, t, na, old, half, in, 0, None)
                 IN  \A mask \in ValidMasks(NAtoms) :
                        StepUpdate(TRUE, t, na, old, half, in, 0, mask) = smp0 ]_vars

C17_Witness ==
    /\ pc = "loop" /\ last.t # 0 /\ ~Masked /\ call.aug # 0
    /\ last.in.grad_l[1] # 0 /\ last.in.grad_x[1] # 0
    /\ traj[last.t - 1].lattices #
          StepUpdate(TRUE, last.t, call.batch.num_atoms, traj[last.t], last.x05, last.in,
                     call.aug, Const(NAtoms, 1)).lattices

\* C13: lap returns one type per atom, and within every structure (the atoms from
\* the structure's offset on) the returned types are a rearrangement of the input
\* types of that structure: every species occurs as often as it did.
SpeciesCount(types, st, n, k) == Cardinality({ i \in (st + 1)..(st + n) : types[i] = k })

C13_LapPermutes ==
    (fn.status = "returned" /\ fn.op = "lap") =>
        /\ DOMAIN fn.result = 1..Sum(fn.num_atoms)
        /\ \A g \in 1..Len(fn.num_atoms) : \A k \in 1..MAX_ATOMIC_NUM :
              SpeciesCount(fn.result, Offset(fn.num_atoms, g), fn.num_atoms[g], k)
                  = SpeciesCount(fn.types, Offset(fn.num_atoms, g), fn.num_atoms[g], k)

\* One structure of types [1, 1, MAX] in which the atom of species 1 in front
\* scores species MAX highest and the atom of species MAX scores species 1
\* highest: the two swap.
C13_Witness ==
    /\ fn.status = "returned" /\ fn.op = "lap"
    /\ fn.num_atoms = <<3>>
    /\ fn.types = <<1, 1, MAX_ATOMIC_NUM>>
    /\ fn.probs = <<Row(MAX_ATOMIC_NUM, 1), Row(1, 1), Row(1, 1)>>
    /\ fn.result = <<MAX_ATOMIC_NUM, 1, 1>>

\* C15: training_step returns None exactly when the loss is NaN, returns the loss
\* itself otherwise (an infinite loss included), and always returns; the loss is
\* logged either way.
C15_NanLossSkipped ==
    (fn.op = "training_step" /\ fn.status # "called") =>
        /\ fn.status = "returned"
        /\ fn.logged = fn.loss
        /\ (fn.result = Nothing) <=> (fn.loss = NaN)
        /\ fn.loss # NaN => fn.result = <<fn.loss>>

C15_Witness ==
    /\ fn.op = "training_step" /\ fn.status = "returned"
    /\ fn.loss = NaN /\ fn.result = Nothing

\* C14: a backbone whose edge_style is neither 'fc' nor 'knn' is rejected with an
\* error by its constructor or by its first forward call: forward never yields
\* edges for it, neither a default edge set nor an empty one.
Supported(style) == style \in {"fc", "knn"}

C14_UnsupportedStyleRejected ==
    (net.status # "none" /\ ~Supported(net.args.edge_style)) =>
        /\ out.status # "ok"
        /\ (net.status = "built" /\ out.status # "none") =>
              (out.status = "TypeError" /\ "edges" \notin DOMAIN out)

C14_Witness ==
    /\ net.status = "built" /\ net.args.edge_style = "grid"
    /\ out.status = "TypeError"

\* C18: the output of reorder_symmetric_edges is direction-symmetric: every output
\* edge (i, j) with offset c and vector v has an output edge (j, i) with offset -c
\* and vector -v; the output has exactly twice as many edges as the input has
\* retained edges; neighbors_new is even for every structure and sums to the
\* number of output edges.
OutEdge(r, e) == <<r.edge_index[e], r.cell_offsets[e], r.edge_vector[e]>>
Mirror(r, e) ==
    <<(<<r.edge_index[e][2], r.edge_index[e][1]>>),
      Scale(-1, r.cell_offsets[e]), Scale(-1, r.edge_vector[e])>>

C18_OutputSymmetric ==
    Reordered =>
        LET r == fn.result
            n == Len(r.edge_index)
            retained == Cardinality({ e \in 1..Len(fn.found) : r.mask[e] })
        IN  /\ Len(r.cell_offsets) = n /\ Len(r.edge_vector) = n
            /\ \A e \in 1..n : \E m \in 1..n : OutEdge(r, m) = Mirror(r, e)
            /\ \A e \in 1..n :
                  Cardinality({ m \in 1..n : OutEdge(r, m) = Mirror(r, e) })
                      = Cardinality({ m \in 1..n : OutEdge(r, m) = OutEdge(r, e) })
            /\ n = 2 * retained
            /\ \A g \in 1..Len(r.neighbors) : r.neighbors[g] % 2 = 0
            /\ Sum(r.neighbors) = n

\* Two retained edges in two structures, one between distinct atoms and one a
\* self-periodic edge, each followed by its counter-edge.
C18_Witness ==
    /\ Reordered /\ Len(fn.found) = MaxEdges
    /\ fn.result.neighbors = <<2, 2>>
    /\ fn.result.edge_index = <<(<<0, 1>>), (<<1, 0>>), (<<2, 2>>), (<<2, 2>>)>>
    /\ fn.result.cell_offsets[3] = <<0, -1, 1>>
    /\ fn.result.cell_offsets[4] = <<0, 1, -1>>
    /\ fn.result.edge_vector[1] # <<0>>

\* C19: an input edge (i, j, c) is retained exactly when i < j, or i = j and the
\* first non-zero component of c is negative; so of two same-atom input edges with
\* offsets c and -c, c non-zero, exactly one is retained, a same-atom edge with
\* zero offset is not retained, and an output edge with i > j is the mirror of a
\* retained input edge (j, i, -c).
FirstNonZeroNegative(c) ==
    \E k \in 1..3 : c[k] < 0 /\ \A h \in 1..(k - 1) : c[h] = 0

C19_CanonicalRule ==
    Reordered =>
        LET f == fn.found
            r == fn.result
        IN  /\ \A e \in 1..Len(f) :
                  r.mask[e] <=> \/ f[e].i < f[e].j
                                \/ (f[e].i = f[e].j /\ FirstNonZeroNegative(f[e].c))
            /\ \A e, d \in 1..Len(f) :
                  (f[e].i = f[e].j /\ f[d].i = f[e].i /\ f[d].j = f[e].i
                     /\ f[e].c # <<0, 0, 0>> /\ f[d].c = Scale(-1, f[e].c))
                  => (r.mask[e] # r.mask[d])
            /\ \A e \in 1..Len(f) :
                  (f[e].i = f[e].j /\ f[e].c = <<0, 0, 0>>) => ~r.mask[e]
            /\ \A m \in 1..Len(r.edge_index) :
                  r.edge_index[m][1] > r.edge_index[m][2] =>
                      \E e \in 1..Len(f) :
                          /\ r.mask[e]
                          /\ f[e].i = r.edge_index[m][2] /\ f[e].j = r.edge_index[m][1]
                          /\ f[e].c = Scale(-1, r.cell_offsets[m])
            /\ \A m \in 1..Len(r.edge_index) :
                  \E e \in 1..Len(f) :
                      /\ r.mask[e]
                      /\ \/ /\ <<f[e].i, f[e].j>> = r.edge_index[m]
                            /\ f[e].c = r.cell_offsets[m]
                         \/ /\ <<f[e].j, f[e].i>> = r.edge_index[m]
                            /\ f[e].c = Scale(-1, r.cell_offsets[m])

\* A same-atom pair c, -c whose first component is zero: the copy with the
\* negative second component is retained, the other is not.
C19_Witness ==
    /\ Reordered /\ Len(fn.found) = 2
    /\ fn.found[1].i = fn.found[1].j /\ fn.found[2].i = fn.found[1].i
    /\ fn.found[2].j = fn.found[1].i
    /\ fn.found[1].c = <<0, 1, -1>> /\ fn.found[2].c = <<0, -1, 1>>
    /\ fn.result.mask = <<FALSE, TRUE>>

\* C20: in fully-connected mode both endpoints of every edge are atoms of one
\* structure, so edge2graph (the structure of the first endpoint) is also the
\* structure of the second endpoint, and every ordered pair of distinct atoms of
\* one structure is an edge.
C20_EdgesWithinStructures ==
    FcOut =>
        LET node2graph == Node2Graph(out.num_atoms)
            N == Sum(out.num_atoms)
        IN  /\ \A e \in 1..Len(out.edges) :
                  /\ out.edges[e][1] \in 0..(N - 1) /\ out.edges[e][2] \in 0..(N - 1)
                  /\ node2graph[out.edges[e][1]] = node2graph[out.edges[e][2]]
                  /\ out.edge2graph[e] = node2graph[out.edges[e][2]]
            /\ \A a, b \in 0..(N - 1) :
                  (a # b /\ node2graph[a] = node2graph[b]) => Count(out.edges, <<a, b>>) = 1

C20_Witness ==
    /\ FcOut /\ out.num_atoms = <<2, 3>>
    /\ Count(out.edges, <<2, 4>>) = 1 /\ Count(out.edges, <<1, 2>>) = 0

\* C21: once the scope of a RequiresGradContext has been left, every flag of every
\* wrapped object (a tensor's flag, each parameter's flag of a module) is the one
\* it had immediately before the scope was entered.
CtxExited == fn.op = "RequiresGradContext" /\ fn.status = "exited"

C21_RestoresPerObject ==
    CtxExited =>
        \A o \in 1..Len(fn.objs) : \A p \in DOMAIN fn.objs[o].rg :
            fn.objs[o].rg[p] = fn.before[o].rg[p]

\* C22: a call with diff_ratio >= 1 never reads the ground truth.  For every batch
\* that agrees with the call's batch on num_atoms and differs in atom_types,
\* frac_coords or lattice, and the same draws and model outputs: the first
\* snapshot is the same, the step inputs range over the same sets, every step
\* stores the same snapshot, the mask check decides the same, and the call
\* returns the same stacked trajectory and final structure.
GroundTruthVariants(batch) ==
    { [batch EXCEPT !.atom_types = ty, !.frac_coords = x, !.lattices = l] :
        ty \in { Const(NumNodes(batch), 1), Const(NumNodes(batch), MAX_ATOMIC_NUM) },
        x \in { Const(NumNodes(batch), 0), Const(NumNodes(batch), 4) },
        l \in { Const(NumGraphs(batch), 1), Const(NumGraphs(batch), 6) } } \ { batch }

StartOf(batch, T, ratio, d) ==
    LET s0 == InitialState(batch, T, ratio, d)
    IN  Snapshot(batch.num_atoms, s0.t, Wrap(s0.x), s0.l)

C22_DeNovoIgnoresGroundTruth ==
    [][ /\ (pc = "idle" /\ pc' = "loop" /\ DeNovo') =>
              LET T == hparams.timesteps
                  r == call'.diff_ratio
                  others == GroundTruthVariants(call'.batch)
              IN  /\ \A d \in InitDraws : \A b2 \in others :
                        StartOf(b2, T, r, d) = StartOf(call'.batch, T, r, d)
                  /\ \A b2 \in others :
                        /\ time_start' = TimeStartOf(T, r)
                        /\ \E d \in InitDraws : traj'[time_start'] = StartOf(b2, T, r, d)
                        /\ Masks(NumNodes(b2)) = Masks(NAtoms')
        /\ (pc = "loop" /\ pc' = "scope" /\ DeNovo) =>
              \A n \in { NumNodes(b2) : b2 \in GroundTruthVariants(call.batch) } :
                  \E c \in CorrInputs(n) :
                      half' = CorrectorX(t, traj[t].frac_coords, c.pred_x, c.rand_x)
        /\ (pc = "scope" /\ pc' = "loop" /\ DeNovo) =>
              LET others == GroundTruthVariants(call.batch)
              IN  /\ \A nb \in { <<NumNodes(b2), NumGraphs(b2)>> : b2 \in others } :
                        last'.in \in StepInputs(nb[1], nb[2])
                  /\ \A na \in { b2.num_atoms : b2 \in others } :
                        traj'[t - 1] = StepUpdate(Masked, t, na, traj[t], half, last'.in,
                                                  call.aug, call.mask)
        /\ (pc = "loop" /\ pc' = "returned" /\ DeNovo) =>
              \A na \in { b2.num_atoms : b2 \in GroundTruthVariants(call.batch) } :
                  /\ result'.traj_stack = TrajStack(traj, time_start, na)
                  /\ result'.final =
                        [traj[0] EXCEPT !.atom_types = HardTypes(traj[0].atom_types)] ]_vars

\* A masked_sample call with diff_ratio = 1 has returned after T = 2 steps, and a
\* batch with the same atom counts and another structure would have started
\* elsewhere had the call's diff_ratio been 1/2.
C22_Witness ==
    /\ pc = "returned" /\ Masked /\ call.diff_ratio = <<1, 1>> /\ steps = <<2, 1>>
    /\ \E b2 \in GroundTruthVariants(call.batch) : \E d \in InitDraws :
          StartOf(b2, 2, <<1, 2>>, d) # StartOf(call.batch, 2, <<1, 2>>, d)

====
